---- MODULE Spec2Model ----
(***************************************************************************)
(* A state-machine model of the NetEase Cloud Music search/download tool   *)
(* (class NeteaseSearchDownload).  The control surface is the Tk main      *)
(* loop: it runs one handler or one root.after callback at a time.  Each   *)
(* threading.Thread the handlers start is a worker that interleaves with   *)
(* the control surface at its blocking points (network request, file       *)
(* write).                                                                 *)
(*                                                                         *)
(* Text is modelled as a sequence of one-character strings, so that        *)
(* strip(), int(), str.replace() and os.path.splitext() are computed.      *)
(* Non-ASCII literals of the source are written in ASCII:                  *)
(*   "TitleOnly" for the naming format 歌曲名, "TitleDashArtist" for        *)
(*   歌曲名-歌手, and "song_" for the prefix 歌曲_.                          *)
(***************************************************************************)
EXTENDS Integers, Sequences, FiniteSets, TLC

(***************************************************************************)
(* Bounds of the model.                                                    *)
(***************************************************************************)
\* user commands accepted by the control surface in one run
MaxOps == 3
\* largest page size the limit combobox offers (the source offers
\* 10,20,30,50,100; the model offers 1..MaxLimit, default MaxLimit)
MaxLimit == 2
\* the result count a response reports when it carries songCount
TotalCount == 5
\* longest track name and artist string a function applied on its own is
\* given
MaxLen == 2

(***************************************************************************)
(* Text helpers.                                                           *)
(***************************************************************************)
Digits == <<"0", "1", "2", "3", "4", "5", "6", "7", "8", "9">>

DigitValue(c) == CHOOSE d \in 0..9 : Digits[d + 1] = c

IsDigit(c) == \E d \in 0..9 : Digits[d + 1] = c

RECURSIVE LStrip(_)
LStrip(s) == IF s # <<>> /\ Head(s) = " " THEN LStrip(Tail(s)) ELSE s

RECURSIVE RStrip(_)
RStrip(s) ==
    IF s # <<>> /\ s[Len(s)] = " " THEN RStrip(SubSeq(s, 1, Len(s) - 1)) ELSE s

\* str.strip()
Strip(s) == RStrip(LStrip(s))

RECURSIVE DigitsValue(_)
DigitsValue(s) ==
    IF s = <<>> THEN 0
    ELSE 10 * DigitsValue(SubSeq(s, 1, Len(s) - 1)) + DigitValue(s[Len(s)])

AllDigits(s) == s # <<>> /\ \A i \in 1..Len(s) : IsDigit(s[i])

\* int(text) succeeds: optional surrounding blanks, optional sign, digits
IntOk(text) ==
    LET s == Strip(text) IN
    IF s # <<>> /\ Head(s) \in {"-", "+"} THEN AllDigits(Tail(s)) ELSE AllDigits(s)

\* int(text), for a text with IntOk(text)
IntValue(text) ==
    LET s == Strip(text) IN
    IF Head(s) = "-" THEN 0 - DigitsValue(Tail(s))
    ELSE IF Head(s) = "+" THEN DigitsValue(Tail(s))
    ELSE DigitsValue(s)

RECURSIVE NatStr(_)
NatStr(n) == IF n < 10 THEN <<Digits[n + 1]>> ELSE NatStr(n \div 10) \o <<Digits[(n % 10) + 1]>>

\* str(n)
Str(n) == IF n < 0 THEN <<"-">> \o NatStr(0 - n) ELSE NatStr(n)

Max(a, b) == IF a >= b THEN a ELSE b

\* the sequence s without its element at index k
Remove(s, k) == [j \in 1..(Len(s) - 1) |-> IF j < k THEN s[j] ELSE s[j + 1]]

(***************************************************************************)
(* generate_filename and the collision probe of fetch_and_download_song.   *)
(***************************************************************************)
illegal_chars == {"<", ">", ":", "\"", "/", "\\", "|", "?", "*"}

clean_filename(text) ==
    Strip([i \in 1..Len(text) |-> IF text[i] \in illegal_chars THEN "_" ELSE text[i]])

Mp3 == <<".", "m", "p", "3">>

generate_filename(song_name, artist, naming) ==
    IF naming = "TitleOnly"
    THEN clean_filename(song_name) \o Mp3
    ELSE clean_filename(song_name) \o <<" ", "-", " ">> \o clean_filename(artist) \o Mp3

\* filename chosen at lines 762-765
FileNameFor(song, naming) ==
    IF song.name # <<>> /\ song.artist # <<>>
    THEN generate_filename(song.name, song.artist, naming)
    ELSE <<"s", "o", "n", "g", "_">> \o Str(song.song_id) \o Mp3

\* index of the last "." of p, 0 when there is none
LastDot(p) ==
    IF \E i \in 1..Len(p) : p[i] = "."
    THEN CHOOSE i \in 1..Len(p) : p[i] = "." /\ \A j \in (i + 1)..Len(p) : p[j] # "."
    ELSE 0

\* os.path.splitext on a name without directory separators: leading dots
\* are not an extension
splitext(p) ==
    LET d == LastDot(p) IN
    IF d > 0 /\ \E i \in 1..(d - 1) : p[i] # "."
    THEN <<SubSeq(p, 1, d - 1), SubSeq(p, d, Len(p))>>
    ELSE <<p, <<>>>>

\* f"{base_name} ({counter}){ext}"
NumberedName(filename, counter) ==
    LET parts == splitext(filename) IN
    parts[1] \o <<" ", "(">> \o Str(counter) \o <<")">> \o parts[2]

\* the while loop of lines 771-776: the first name the probe finds absent
RECURSIVE ProbeFrom(_, _, _, _)
ProbeFrom(filename, candidate, counter, present) ==
    IF candidate \in present
    THEN ProbeFrom(filename, NumberedName(filename, counter), counter + 1, present)
    ELSE candidate

NoProbe(filename, present) == filename

ProbePath(filename, present) == ProbeFrom(filename, filename, 1, present)

(***************************************************************************)
(* The remote side.                                                        *)
(***************************************************************************)
\* final URL of the "track unavailable" page (line 751)
SentinelUrl == "https://music.163.com/#/404"

MediaUrl == "http://music.163.com/song/media/outer/url"

\* the catalogue: the song at position p of the results has id p; songs 1
\* and 2 carry the same name, which holds a character clean_filename
\* replaces, the others another one; every song has the same artist
RawName(id) == IF id <= 2 THEN <<"a", "?">> ELSE <<"b">>

RawArtist(id) == <<"x">>

\* extract_song_info, the fields the downloads read
extract_song_info(id) == [song_id |-> id, name |-> RawName(id), artist |-> RawArtist(id)]

\* the n songs from position offset on
Page(offset, n) == [i \in 1..n |-> Max(0, offset) + i]

\* the decoded document that holds n songs for a request: hasCount is
\* whether result.songCount is present, which it is when there are songs;
\* a page shorter than the limit ends the results, a full one does not
SearchData(req, n) ==
    [songs |-> Page(req.offset, n),
     hasCount |-> n > 0,
     songCount |-> IF n < req.limit THEN Max(0, req.offset) + n
                   ELSE Max(TotalCount, Max(0, req.offset) + n)]

\* what search_music can return for a request: <<>> is None (status error,
\* transport error, JSON error), <<d>> is the decoded document d, holding
\* at most limit songs
SearchReturns(req) == {<<>>} \cup {<<SearchData(req, n)>> : n \in 0..req.limit}

\* responses to the GET/HEAD of a download link: a transport error, or a
\* final URL and status
LinkResponses ==
    {[err |-> TRUE, url |-> "", status |-> 0]}
        \cup [err : {FALSE}, url : {MediaUrl, SentinelUrl}, status : {200, 404}]

(***************************************************************************)
(* What the user can type.                                                 *)
(***************************************************************************)
KeywordTexts == {<<>>, <<" ">>, <<"k">>}

OffsetTexts == {<<>>, <<"1">>, <<"-", "1">>, <<"x">>}

LimitTexts == {Str(l) : l \in 1..MaxLimit}

GotoTexts == {<<>>, <<"0">>, <<"1">>, <<"-", "1">>, <<"x">>}

NamingFormats == {"TitleOnly", "TitleDashArtist"}

(***************************************************************************)
(* State.                                                                  *)
(***************************************************************************)
VARIABLES
    current_keywords,       \* self.current_keywords
    current_offset,         \* self.current_offset
    current_limit,          \* self.current_limit
    current_result,         \* self.current_result: <<>> is None
    song_details,           \* self.song_details
    selected_song,          \* self.selected_song: <<>> is None
    naming_format,          \* self.naming_format
    download_dir,           \* self.download_dir
    prev_btn, next_btn,     \* state of the paging buttons
    download_btn, batch_download_btn, test_download_btn,
    page_label,             \* offset and total shown by page_label
    detail_download_status, \* text of the link status label
    uiPc,                   \* where the control surface is: "idle", or the
                            \* handler it is blocked in, in requests.get
                            \* ("prev_page", "next_page", "goto_offset") or in
                            \* requests.head ("test_download_link")
    uiReq,                  \* the request the control surface is blocked in
    searchThreads,          \* the requests of the search workers that run,
                            \* in the order they were started
    threads,                \* the download workers that run, in the order
                            \* they were started
    afterQueue,             \* the display_results callbacks handed to
                            \* root.after(0, ...), in order
    files,                  \* files that exist, as [dir, name]
    dirs,                   \* directories that exist
    written,                \* every completed download, in order
    initFiles,              \* the files that existed at start
    lastPageSize,           \* size of the page the last handled search returned
    messagebox,             \* the dialog the last command showed, "" for none
    ops,                    \* commands accepted so far
    fnIn,                   \* the input of a function applied on its own
    fnOut                   \* what that function returned, <<>> before it ran

pagingVars == <<current_keywords, current_offset, current_limit>>
resultVars == <<current_result, song_details, selected_song>>
settingVars == <<naming_format, download_dir>>
btnVars == <<prev_btn, next_btn, download_btn, batch_download_btn, test_download_btn>>
labelVars == <<page_label, detail_download_status>>
\* what no handler and no worker changes
envVars == <<initFiles, fnIn, fnOut>>
fsVars == <<files, dirs, written, envVars>>

vars == <<pagingVars, resultVars, settingVars, btnVars, labelVars,
          uiPc, uiReq, searchThreads, threads, afterQueue, fsVars,
          lastPageSize, messagebox, ops>>

\* no function is applied on its own
NoInput == [fn |-> "none"]

NoReq == [keywords |-> <<>>, offset |-> 0, limit |-> 0]

\* the directory the downloads go to by default (line 51)
DefaultDir == "downloads"

\* the name a download of song 1 gets under the default naming format
DefaultFile == FileNameFor(extract_song_info(1), "TitleDashArtist")

\* what the download directory can hold at start
InitFileSets ==
    {{}, {[dir |-> DefaultDir, name |-> DefaultFile]}}

AppInit ==
    /\ current_keywords = <<>>
    /\ current_offset = 0
    /\ current_limit = MaxLimit
    /\ current_result = <<>>
    /\ song_details = <<>>
    /\ selected_song = <<>>
    /\ naming_format = "TitleDashArtist"
    /\ download_dir = DefaultDir
    /\ prev_btn = "disabled"
    /\ next_btn = "disabled"
    /\ download_btn = "disabled"
    /\ batch_download_btn = "disabled"
    /\ test_download_btn = "disabled"
    /\ page_label = [offset |-> 0, total |-> 0]
    /\ detail_download_status = ""
    /\ uiPc = "idle"
    /\ uiReq = NoReq
    /\ searchThreads = <<>>
    /\ threads = <<>>
    /\ afterQueue = <<>>
    /\ initFiles \in InitFileSets
    /\ files = initFiles
    /\ dirs = {f.dir : f \in initFiles}
    /\ written = <<>>
    /\ lastPageSize = 0
    /\ messagebox = ""
    /\ ops = 0

Init == AppInit /\ fnIn = NoInput /\ fnOut = <<>>

\* the control surface is free to take a command
UiIdle == uiPc = "idle" /\ ops < MaxOps

(***************************************************************************)
(* Search and paging (on_search, _do_search, display_results, prev_page,   *)
(* next_page, goto_offset, reset_search).                                  *)
(***************************************************************************)
Request(keywords, offset, limit) ==
    [keywords |-> keywords, offset |-> offset, limit |-> limit]

\* a document without songs
EmptyData == [songs |-> <<>>, hasCount |-> FALSE, songCount |-> 0]

AfterSearchRendersFailure(r) ==
    Append(afterQueue, IF r # <<>> THEN r[1] ELSE EmptyData)

\* _do_search after search_music returned r: display_results(data) is
\* handed to root.after only for data that is truthy
AfterSearch(r) == IF r # <<>> THEN Append(afterQueue, r[1]) ELSE afterQueue

\* a command that returns early: nothing changes but the dialog shown
\* (the messagebox of the handler, named by what it says)
Refuse(dialog) ==
    /\ messagebox' = dialog
    /\ ops' = ops + 1
    /\ UNCHANGED <<pagingVars, resultVars, settingVars, btnVars, labelVars,
                   uiPc, uiReq, searchThreads, threads, afterQueue,
                   fsVars, lastPageSize>>

\* the control surface calls _do_search itself and blocks in requests.get
SearchOnUi(cmd, new_offset) ==
    LET req == Request(current_keywords, new_offset, current_limit) IN
    /\ current_offset' = new_offset
    /\ uiPc' = cmd
    /\ uiReq' = req
    /\ messagebox' = ""
    /\ ops' = ops + 1
    /\ UNCHANGED <<current_keywords, current_limit, resultVars, settingVars, btnVars,
                   labelVars,  searchThreads, threads, afterQueue,
                   fsVars, lastPageSize>>

on_search(kwText, offText, limText) ==
    LET keywords == Strip(kwText)
        offset == IF Strip(offText) = <<>> THEN <<"0">> ELSE Strip(offText)
        limit == IF Strip(limText) = <<>> THEN Str(MaxLimit) ELSE Strip(limText)
    IN
    /\ UiIdle
    /\ IF keywords = <<>>
       THEN Refuse("keyword_required")
       ELSE IF IntOk(offset) /\ IntOk(limit)
       THEN LET req == Request(keywords, IntValue(offset), IntValue(limit)) IN
            /\ current_keywords' = keywords
            /\ current_offset' = req.offset
            /\ current_limit' = req.limit
            /\ searchThreads' = Append(searchThreads, req)
            /\ messagebox' = ""
            /\ ops' = ops + 1
            /\ UNCHANGED <<resultVars, settingVars, btnVars, labelVars, 
                           uiPc, uiReq, threads, afterQueue, fsVars, lastPageSize>>
       ELSE Refuse("invalid_number")

\* search_music shows the error dialog when it returns None
SearchDialog(r) == IF r = <<>> THEN "search_failed" ELSE messagebox

\* a search worker's requests.get returns
SearchThreadReturn(t, r) ==
    /\ t \in 1..Len(searchThreads)
    /\ r \in SearchReturns(searchThreads[t])
    /\ searchThreads' = Remove(searchThreads, t)
    /\ afterQueue' = AfterSearch(r)
    /\ lastPageSize' = IF r = <<>> THEN 0 ELSE lastPageSize
    /\ messagebox' = SearchDialog(r)
    /\ UNCHANGED <<pagingVars, resultVars, settingVars, btnVars, labelVars,
                   uiPc, uiReq, threads, fsVars, ops>>

\* the control surface's own requests.get returns
UiSearchReturn(r) ==
    /\ uiPc \in {"prev_page", "next_page", "goto_offset"}
    /\ r \in SearchReturns(uiReq)
    /\ uiPc' = "idle"
    /\ uiReq' = NoReq
    /\ afterQueue' = AfterSearch(r)
    /\ lastPageSize' = IF r = <<>> THEN 0 ELSE lastPageSize
    /\ messagebox' = SearchDialog(r)
    /\ UNCHANGED <<pagingVars, resultVars, settingVars, btnVars, labelVars,
                   searchThreads, threads, fsVars, ops>>

PrevOffsetNoClamp(offset, limit) == offset - limit

PrevOffsetByOne(offset, limit) == Max(0, offset - 1)

PrevOffset(offset, limit) == Max(0, offset - limit)

prev_page ==
    /\ UiIdle
    /\ prev_btn = "normal"
    /\ IF current_offset <= 0
       THEN Refuse("")
       ELSE SearchOnUi("prev_page", PrevOffset(current_offset, current_limit))

next_page ==
    /\ UiIdle
    /\ next_btn = "normal"
    /\ SearchOnUi("next_page", current_offset + current_limit)

GotoRejectsNothing(offset) == FALSE

\* the test of line 1242
GotoRejects(offset) == offset < 0

goto_offset(text) ==
    LET offset_str == Strip(text) IN
    /\ UiIdle
    /\ IF offset_str = <<>>
       THEN Refuse("")
       ELSE IF IntOk(offset_str) /\ ~GotoRejects(IntValue(offset_str))
       THEN SearchOnUi("goto_offset", IntValue(offset_str))
       ELSE Refuse("invalid_offset")

ListClearedInPlace(held, new_list) == new_list

\* self.song_details = [] (lines 631, 1287) binds the attribute to a new
\* list, which the appends of line 651 then fill: a list object handed to a
\* batch worker before (line 820) stays as it is
ListRebound(held, new_list) == held

\* the download workers once self.song_details has become new_list: the
\* batch workers hold a list object that was self.song_details, the others
\* the fields of the selected song
WorkersAfterRebind(new_list) ==
    [w \in 1..Len(threads) |->
        IF threads[w].kind = "batch"
        THEN [threads[w] EXCEPT !.songs = ListRebound(@, new_list)]
        ELSE threads[w]]

NextEnabledStrict(n, limit) == n > limit

\* the test of line 671
NextEnabled(n, limit) == n >= limit

\* display_results(data), run by the control surface
display_results(data) ==
    LET songs == data.songs IN
    IF songs = <<>>
    THEN /\ song_details' = <<>>
         /\ download_btn' = "disabled"
         /\ batch_download_btn' = "disabled"
         /\ test_download_btn' = "disabled"
         /\ lastPageSize' = 0
         /\ UNCHANGED <<current_result, selected_song, prev_btn, next_btn,
                        page_label, detail_download_status>>
    ELSE /\ song_details' = [i \in 1..Len(songs) |-> extract_song_info(songs[i])]
         /\ page_label' = [offset |-> current_offset,
                           total |-> IF data.hasCount THEN data.songCount ELSE Len(songs)]
         /\ prev_btn' = IF current_offset > 0 THEN "normal" ELSE "disabled"
         /\ next_btn' = IF NextEnabled(Len(songs), current_limit) THEN "normal" ELSE "disabled"
         /\ batch_download_btn' = "normal"
         /\ current_result' = <<data>>
         \* update_song_detail(0)
         /\ selected_song' = <<extract_song_info(songs[1])>>
         /\ detail_download_status' = ""
         /\ download_btn' = "normal"
         /\ test_download_btn' = "normal"
         /\ lastPageSize' = Len(songs)

\* the Tk main loop runs the oldest root.after callback
RunCallback ==
    /\ uiPc = "idle"
    /\ afterQueue # <<>>
    /\ afterQueue' = Tail(afterQueue)
    /\ display_results(Head(afterQueue))
    /\ threads' = WorkersAfterRebind(song_details')
    /\ UNCHANGED <<pagingVars, settingVars, uiPc, uiReq, searchThreads,
                   fsVars, messagebox, ops>>

\* the user clicks row i of the result tree (on_song_selected)
on_song_selected(i) ==
    /\ UiIdle
    /\ i \in 1..Len(song_details)
    /\ selected_song' = <<song_details[i]>>
    /\ detail_download_status' = ""
    /\ download_btn' = "normal"
    /\ test_download_btn' = "normal"
    /\ messagebox' = ""
    /\ ops' = ops + 1
    /\ UNCHANGED <<pagingVars, current_result, song_details, settingVars, prev_btn,
                   next_btn, batch_download_btn, page_label, uiPc, uiReq,
                   searchThreads, threads, afterQueue, fsVars, lastPageSize>>

ResetKeepsSelection ==
    /\ UiIdle
    /\ detail_download_status' = ""
    /\ page_label' = [offset |-> 0, total |-> 0]
    /\ prev_btn' = "disabled"
    /\ next_btn' = "disabled"
    /\ download_btn' = "disabled"
    /\ batch_download_btn' = "disabled"
    /\ test_download_btn' = "disabled"
    /\ current_keywords' = <<>>
    /\ current_offset' = 0
    /\ current_result' = <<>>
    /\ song_details' = <<>>
    /\ lastPageSize' = 0
    /\ messagebox' = ""
    /\ ops' = ops + 1
    /\ threads' = WorkersAfterRebind(<<>>)
    /\ UNCHANGED <<current_limit, selected_song, settingVars, uiPc, uiReq,
                   searchThreads, afterQueue, fsVars>>

reset_search ==
    /\ UiIdle
    /\ detail_download_status' = ""
    /\ page_label' = [offset |-> 0, total |-> 0]
    /\ prev_btn' = "disabled"
    /\ next_btn' = "disabled"
    /\ download_btn' = "disabled"
    /\ batch_download_btn' = "disabled"
    /\ test_download_btn' = "disabled"
    /\ current_keywords' = <<>>
    /\ current_offset' = 0
    /\ current_result' = <<>>
    /\ song_details' = <<>>
    /\ selected_song' = <<>>
    /\ lastPageSize' = 0
    /\ messagebox' = ""
    /\ ops' = ops + 1
    /\ threads' = WorkersAfterRebind(<<>>)
    /\ UNCHANGED <<current_limit, settingVars, uiPc, uiReq, searchThreads,
                   afterQueue, fsVars>>

(***************************************************************************)
(* Downloads (download_selected_song, batch_download, _do_download,        *)
(* _do_batch_download, fetch_and_download_song) and test_download_link.    *)
(***************************************************************************)
NoPath == [dir |-> "", name |-> <<>>]

\* the pair fetch_and_download_song returns: kind is which return statement
\* it left by, code the status code a "status" failure carries, path the
\* file of a success; err, url and status are those of the response it saw
Result(ok, kind, code, path, resp) ==
    [ok |-> ok, kind |-> kind, code |-> code, path |-> path,
     err |-> resp.err, url |-> resp.url, status |-> resp.status]

NoResponse == [err |-> TRUE, url |-> "", status |-> 0]

NoResult == Result(FALSE, "", 0, NoPath, NoResponse)

NoLog == [ok |-> 0, fail |-> 0, summary |-> 0]

\* a download worker just started, its first requests.get in flight.
\* path is the full_path the probe chose, naming the format it was made
\* with and probeAt the number of downloads completed when it was chosen.
\* attempted, returned, failed and logged record what the worker did: the
\* ids it started an attempt for, how many attempts returned, how many of
\* them failed, how many log entries of each kind it handed to root.after;
\* startNaming and startDir are the settings in force when it was started,
\* accepted the songs it was started with
NewThread(kind, songs) ==
    [kind |-> kind, songs |-> songs, accepted |-> songs, i |-> 1, pc |-> "get",
     path |-> NoPath, naming |-> "", probeAt |-> 0,
     startNaming |-> naming_format, startDir |-> download_dir,
     success_count |-> 0, fail_count |-> 0, result |-> NoResult,
     attempted |-> <<songs[1].song_id>>, returned |-> 0, failed |-> 0,
     logged |-> NoLog]

ClassifyStatusFirst(resp) ==
    IF resp.err THEN "network"
    ELSE IF resp.status # 200 THEN "status"
    ELSE IF resp.url = SentinelUrl THEN "unavailable"
    ELSE "ok"

\* the checks of lines 748-755 and the handler of line 783
Classify(resp) ==
    IF resp.err THEN "network"
    ELSE IF resp.url = SentinelUrl THEN "unavailable"
    ELSE IF resp.status # 200 THEN "status"
    ELSE "ok"

FailureCodeDropped(kind, resp) == 0

\* the status code in the message of line 755
FailureCode(kind, resp) == IF kind = "status" THEN resp.status ELSE 0

\* the checks of test_download_link, lines 838-865
LinkStatus(resp) ==
    IF resp.err THEN "failed"
    ELSE IF resp.status = 200 THEN "valid"
    ELSE IF resp.url = SentinelUrl THEN "unavailable"
    ELSE "failed"

BatchStopsOnFailure(i, total, ok) == i < total /\ ok

\* the for loop of line 899 goes on to the next song
BatchContinues(i, total, ok) == i < total

CountSuccessOnly(th, ok) ==
    IF ok THEN [th EXCEPT !.success_count = @ + 1] ELSE th

\* lines 913-919
CountAttempt(th, ok) ==
    IF ok THEN [th EXCEPT !.success_count = @ + 1]
    ELSE [th EXCEPT !.fail_count = @ + 1]

\* the log entries a worker hands to root.after when an attempt returned:
\* one per attempt, and the summary after the last one of a batch
LogEntries(kind, ok, more) ==
    <<IF ok THEN "ok" ELSE "fail">> \o (IF kind = "batch" /\ ~more THEN <<"summary">> ELSE <<>>)

Logged(log, entries) ==
    [k \in {"ok", "fail", "summary"} |->
        log[k] + Cardinality({j \in 1..Len(entries) : entries[j] = k})]

\* the worker after its attempt on songs[i] returned res
AfterAttempt(th, res) ==
    LET more == th.kind = "batch" /\ BatchContinues(th.i, Len(th.songs), res.ok)
        th1 == [th EXCEPT !.result = res, !.path = NoPath, !.naming = "", !.probeAt = 0,
                          !.returned = @ + 1,
                          !.failed = IF res.ok THEN @ ELSE @ + 1,
                          !.logged = Logged(@, LogEntries(th.kind, res.ok, more))]
        th2 == IF th.kind = "batch" THEN CountAttempt(th1, res.ok) ELSE th1
    IN
    IF more
    THEN [th2 EXCEPT !.i = @ + 1, !.pc = "get",
                     !.attempted = Append(@, th.songs[th.i + 1].song_id)]
    ELSE [th2 EXCEPT !.pc = "done"]

Finish(w, res) == threads' = [threads EXCEPT ![w] = AfterAttempt(threads[w], res)]

StartThread(cmd, kind, songs) ==
    /\ threads' = Append(threads, NewThread(kind, songs))
    /\ messagebox' = ""
    /\ ops' = ops + 1
    /\ UNCHANGED <<pagingVars, resultVars, settingVars, btnVars, labelVars,
                   uiPc, uiReq, searchThreads, afterQueue, fsVars,
                   lastPageSize>>

\* from the button (when enabled) or from the menu
download_selected_song ==
    /\ UiIdle
    /\ IF selected_song = <<>>
       THEN Refuse("select_song_to_download")
       ELSE StartThread("download_selected_song", "single", selected_song)

\* from the button (when enabled) or from the menu; confirm is the answer
\* to askyesno
batch_download(confirm) ==
    /\ UiIdle
    /\ IF song_details = <<>>
       THEN Refuse("no_songs_to_download")
       ELSE IF ~confirm
       THEN Refuse("confirm_batch_download")
       ELSE StartThread("batch_download", "batch", song_details)

\* the names that exist in directory dir
Present(dir) == {f.name : f \in {g \in files : g.dir = dir}}

\* fetch_and_download_song up to the collision probe: the response is
\* examined, the directory made, the file name resolved
ThreadRespond(w, resp) ==
    /\ w \in 1..Len(threads)
    /\ threads[w].pc = "get"
    /\ LET th == threads[w]
           kind == Classify(resp)
           filename == FileNameFor(th.songs[th.i], naming_format)
       IN
       IF kind # "ok"
       THEN /\ Finish(w, Result(FALSE, kind, FailureCode(kind, resp), NoPath, resp))
            /\ UNCHANGED <<afterQueue, fsVars>>
       ELSE /\ dirs' = dirs \cup {download_dir}
            /\ threads' = [threads EXCEPT ![w] =
                             [th EXCEPT !.pc = "write",
                                        !.probeAt = Len(written),
                                        !.naming = naming_format,
                                        !.path = [dir |-> download_dir,
                                                  name |-> ProbePath(filename,
                                                             Present(download_dir))]]]
            /\ UNCHANGED <<afterQueue, files, written, envVars>>
    /\ UNCHANGED <<pagingVars, resultVars, settingVars, btnVars, labelVars,
                   uiPc, uiReq, searchThreads, lastPageSize,
                   messagebox, ops>>

\* the one response that passes the checks of lines 751-755
OkResponse == [err |-> FALSE, url |-> MediaUrl, status |-> 200]

IoOutcomes == {"ok", "open_failed", "write_failed"}

\* lines 778-781: open(full_path, 'wb') and write; io is what the file
\* system does
ThreadWrite(w, io) ==
    /\ w \in 1..Len(threads)
    /\ threads[w].pc = "write"
    /\ LET th == threads[w] IN
       /\ files' = IF io = "open_failed" THEN files ELSE files \cup {th.path}
       /\ written' = IF io = "ok"
                     THEN Append(written, [path |-> th.path, song |-> th.songs[th.i],
                                           naming |-> th.naming,
                                           probeAt |-> th.probeAt])
                     ELSE written
       /\ Finish(w, IF io = "ok" THEN Result(TRUE, "ok", 0, th.path, OkResponse)
                    ELSE Result(FALSE, "io", 0, NoPath, OkResponse))
    /\ UNCHANGED <<pagingVars, resultVars, settingVars, btnVars, labelVars,
                   uiPc, uiReq, searchThreads, afterQueue, dirs, envVars,
                   lastPageSize, messagebox, ops>>

\* the worker's target function returned: the thread ends
ThreadExit(w) ==
    /\ w \in 1..Len(threads)
    /\ threads[w].pc = "done"
    /\ threads' = Remove(threads, w)
    /\ UNCHANGED <<pagingVars, resultVars, settingVars, btnVars, labelVars,
                   uiPc, uiReq, searchThreads, afterQueue, fsVars,
                   lastPageSize, messagebox, ops>>

\* the control surface calls requests.head itself and blocks in it
test_download_link ==
    /\ UiIdle
    /\ test_download_btn = "normal"
    /\ IF selected_song = <<>>
       THEN Refuse("select_song_to_test")
       ELSE /\ uiPc' = "test_download_link"
            /\ detail_download_status' = "testing"
            /\ messagebox' = ""
            /\ ops' = ops + 1
            /\ UNCHANGED <<pagingVars, resultVars, settingVars, btnVars, page_label,
                           uiReq, searchThreads, threads, afterQueue,
                           fsVars, lastPageSize>>

HeadReturn(resp) ==
    /\ uiPc = "test_download_link"
    /\ uiPc' = "idle"
    /\ detail_download_status' = LinkStatus(resp)
    /\ UNCHANGED <<pagingVars, resultVars, settingVars, btnVars, page_label,
                   uiReq, searchThreads, threads, afterQueue, fsVars,
                   lastPageSize, messagebox, ops>>

(***************************************************************************)
(* Settings (save_naming_settings, save_location_settings).                *)
(***************************************************************************)
\* what the location entry can hold after strip(): "" is an empty entry
LocationTexts == {"", "music"}

\* what the file system does to save_location_settings
LocationOutcomes == {"ok", "makedirs_failed", "write_failed"}

\* the save button of the naming window, with the format chosen in it
save_naming_settings(format) ==
    /\ UiIdle
    /\ naming_format' = format
    /\ messagebox' = ""
    /\ ops' = ops + 1
    /\ UNCHANGED <<pagingVars, resultVars, download_dir, btnVars, labelVars,
                   uiPc, uiReq, searchThreads, threads, afterQueue, fsVars,
                   lastPageSize>>

\* the save button of the location window, with the directory entered in it
save_location_settings(new_location, io) ==
    /\ UiIdle
    /\ IF new_location = ""
       THEN Refuse("location_required")
       ELSE /\ dirs' = IF io = "makedirs_failed" THEN dirs ELSE dirs \cup {new_location}
            /\ download_dir' = IF io = "ok" THEN new_location ELSE download_dir
            /\ messagebox' = CASE io = "ok" -> ""
                                [] io = "makedirs_failed" -> "cannot_create_directory"
                                [] OTHER -> "cannot_write_directory"
            /\ io = "makedirs_failed" => new_location \notin dirs
            /\ ops' = ops + 1
            /\ UNCHANGED <<pagingVars, resultVars, naming_format, btnVars, labelVars,
                           uiPc, uiReq, searchThreads, threads, afterQueue,
                           files, written, envVars, lastPageSize>>

(***************************************************************************)
(* The functions applied on their own: load_settings, the file name of a   *)
(* download and its collision probe, each on inputs drawn from a set.      *)
(***************************************************************************)
appVars == <<pagingVars, resultVars, settingVars, btnVars, labelVars,
             uiPc, uiReq, searchThreads, threads, afterQueue,
             files, dirs, written, initFiles, lastPageSize, messagebox, ops>>

\* the characters of the names drawn: a letter, a dot, a blank and three
\* of the characters clean_filename replaces
Chars == {"a", ".", " ", "/", ":", "*"}

Texts == UNION {[1..n -> Chars] : n \in 0..MaxLen}

\* the settings document on disk: there is none, it cannot be read, it is
\* no JSON, it is JSON but no object, or it is an object that holds each of
\* the two fields or not (<<>> is an absent field)
SettingsDocs ==
    [kind : {"missing", "unreadable", "invalid_json", "not_object"}]
        \cup [kind : {"object"},
              naming_format : {<<>>} \cup {<<f>> : f \in NamingFormats},
              download_dir : {<<>>} \cup {<<d>> : d \in {"downloads", "music"}}]

\* a track as far as the file name goes
TrackNamed(name, artist) == [song_id |-> 1, name |-> name, artist |-> artist]

\* the file names a track without artist trouble gets, whatever its name
ProbeNames == {FileNameFor(TrackNamed(n, <<"x">>), "TitleOnly") : n \in Texts}

FnInputs ==
    [fn : {"load_settings"}, doc : SettingsDocs]
        \cup [fn : {"filename"}, name : Texts, artist : Texts, naming : NamingFormats]
        \cup UNION {[fn : {"probe"}, filename : {f},
                     present : SUBSET {f, NumberedName(f, 1), NumberedName(f, 2)}]
                       : f \in ProbeNames}

SettingsGetNoDefault(field, default) == IF field = <<>> THEN "" ELSE field[1]

\* settings.get(key, default)
SettingsGet(field, default) == IF field = <<>> THEN default ELSE field[1]

\* load_settings, called by __init__ after it set the defaults
load_settings ==
    /\ fnIn.fn = "load_settings"
    /\ fnOut = <<>>
    /\ LET doc == fnIn.doc IN
       CASE doc.kind = "missing" ->
                UNCHANGED <<naming_format, download_dir>>
         [] doc.kind \in {"unreadable", "invalid_json", "not_object"} ->
                /\ naming_format' = "TitleDashArtist"
                /\ download_dir' = DefaultDir
         [] OTHER ->
                /\ naming_format' = SettingsGet(doc.naming_format, "TitleDashArtist")
                /\ download_dir' = SettingsGet(doc.download_dir, DefaultDir)
    /\ fnOut' = <<"loaded">>
    /\ UNCHANGED <<pagingVars, resultVars, btnVars, labelVars,
                   uiPc, uiReq, searchThreads, threads, afterQueue,
                   files, dirs, written, initFiles, lastPageSize, messagebox, ops, fnIn>>

\* lines 762-765 of fetch_and_download_song
ResolveFilename ==
    /\ fnIn.fn = "filename"
    /\ fnOut = <<>>
    /\ fnOut' = <<FileNameFor(TrackNamed(fnIn.name, fnIn.artist), fnIn.naming)>>
    /\ UNCHANGED <<appVars, fnIn>>

\* lines 768-776 of fetch_and_download_song
ProbeCollision ==
    /\ fnIn.fn = "probe"
    /\ fnOut = <<>>
    /\ fnOut' = <<ProbePath(fnIn.filename, fnIn.present)>>
    /\ UNCHANGED <<appVars, fnIn>>

FnInit == AppInit /\ fnIn \in FnInputs /\ fnOut = <<>>

FnNext == load_settings \/ ResolveFilename \/ ProbeCollision

FnSpec == FnInit /\ [][FnNext]_vars

(***************************************************************************)
(* The specification.                                                      *)
(***************************************************************************)
Next ==
    \/ \E k \in KeywordTexts, o \in OffsetTexts, l \in LimitTexts : on_search(k, o, l)
    \/ \E t \in 1..Len(searchThreads) : \E r \in SearchReturns(searchThreads[t]) : SearchThreadReturn(t, r)
    \/ \E r \in SearchReturns(uiReq) : UiSearchReturn(r)
    \/ prev_page
    \/ next_page
    \/ \E t \in GotoTexts : goto_offset(t)
    \/ RunCallback
    \/ \E i \in 1..Len(song_details) : on_song_selected(i)
    \/ reset_search
    \/ download_selected_song
    \/ \E c \in BOOLEAN : batch_download(c)
    \/ \E w \in 1..Len(threads), r \in LinkResponses : ThreadRespond(w, r)
    \/ \E w \in 1..Len(threads), io \in IoOutcomes : ThreadWrite(w, io)
    \/ \E w \in 1..Len(threads) : ThreadExit(w)
    \/ test_download_link
    \/ \E r \in LinkResponses : HeadReturn(r)
    \/ \E f \in NamingFormats : save_naming_settings(f)
    \/ \E l \in LocationTexts, io \in LocationOutcomes : save_location_settings(l, io)

Spec == Init /\ [][Next]_vars

(***************************************************************************)
(* Properties.                                                             *)
(***************************************************************************)
BatchThreads == {w \in 1..Len(threads) : threads[w].kind = "batch"}

\* C1: a batch worker attempts its songs one at a time and in input order
\* (the attempts started are a prefix of the input, and at most the last
\* of them has not returned yet), and a batch that has finished has
\* attempted every song of its input, whichever attempts failed.
BatchSequentialInOrder ==
    \A w \in BatchThreads :
        LET th == threads[w] IN
        /\ Len(th.attempted) <= Len(th.songs)
        /\ \A k \in 1..Len(th.attempted) : th.attempted[k] = th.songs[k].song_id
        /\ th.pc \in {"get", "write"} => Len(th.attempted) = th.returned + 1
        /\ th.pc = "done" => /\ Len(th.attempted) = th.returned
                             /\ Len(th.attempted) = Len(th.songs)

\* a batch of two songs finished although its first attempt failed
BatchWentOnAfterFailure ==
    \E w \in BatchThreads :
        /\ threads[w].pc = "done"
        /\ Len(threads[w].songs) = 2
        /\ threads[w].failed = 1
        /\ threads[w].result.ok

\* C2: a finished batch of N songs of which K attempts failed reports
\* success_count = N - K and fail_count = K, and has emitted N per-song log
\* entries, K of them failures; while it runs, the two counts add up to the
\* number of attempts that returned.
BatchAccounting ==
    \A w \in BatchThreads :
        LET th == threads[w]
            N == Len(th.songs)
            K == th.failed
        IN
        /\ th.success_count + th.fail_count = th.returned
        /\ th.logged["ok"] + th.logged["fail"] = th.returned
        /\ th.pc = "done" => /\ th.success_count = N - K
                             /\ th.fail_count = K
                             /\ th.logged["fail"] = K
                             /\ th.logged["ok"] = N - K
                             /\ th.logged["ok"] + th.logged["fail"] = N

\* a batch of two songs finished with one failure, the failure being its
\* last attempt
BatchCountedLateFailure ==
    \E w \in BatchThreads :
        /\ threads[w].pc = "done"
        /\ Len(threads[w].songs) = 2
        /\ threads[w].fail_count = 1
        /\ threads[w].success_count = 1
        /\ ~threads[w].result.ok

\* C3: an attempt whose response ended at the sentinel page is a failure of
\* the kind "unavailable", whatever the status of that response.
SentinelIsUnavailable ==
    \A w \in 1..Len(threads) :
        LET th == threads[w] IN
        (th.returned > 0 /\ th.result.url = SentinelUrl)
            => (~th.result.ok /\ th.result.kind = "unavailable")

\* an attempt returned "unavailable" for a sentinel page that answered 200
SentinelWithStatus200 ==
    \E w \in 1..Len(threads) :
        /\ threads[w].returned > 0
        /\ threads[w].result.url = SentinelUrl
        /\ threads[w].result.status = 200
        /\ threads[w].result.kind = "unavailable"

\* download j was started after download i completed: the probe of j saw
\* the file of i
Consecutive(i, j) == i < j /\ written[j].probeAt >= i

SameTrack(i, j) ==
    /\ written[i].song.name = written[j].song.name
    /\ written[i].song.artist = written[j].song.artist
    /\ written[i].naming = written[j].naming
    /\ written[i].path.dir = written[j].path.dir

\* C4: successful downloads that follow one another with the same track
\* name, artist, naming format and directory are written to distinct paths,
\* and no successful download is written to a file that existed at start.
NoOverwrite ==
    /\ \A j \in 1..Len(written) : written[j].path \notin initFiles
    /\ \A i, j \in 1..Len(written) :
           (Consecutive(i, j) /\ SameTrack(i, j)) => written[i].path # written[j].path

\* two downloads of the same track followed one another into a directory
\* that held a file of the base name at start
TwoDownloadsBesideOldFile ==
    /\ Len(written) = 2
    /\ Consecutive(1, 2)
    /\ SameTrack(1, 2)
    /\ \E f \in initFiles :
           /\ f.dir = written[1].path.dir
           /\ f.name = FileNameFor(written[1].song, written[1].naming)

\* C5: a next, prev or goto command taken with a non-negative offset leaves
\* a non-negative offset.
OffsetStaysNonNegative ==
    [][(current_offset >= 0 /\ (prev_page \/ next_page \/ \E t \in GotoTexts : goto_offset(t)))
           => current_offset' >= 0]_vars

\* prev took effect from an offset smaller than the limit (the page shown
\* is still the one of offset 1) and left offset 0
PrevClampedToZero ==
    /\ uiPc = "prev_page"
    /\ page_label.offset = 1
    /\ current_limit = 2
    /\ current_offset = 0

\* nothing is in flight and no callback is pending
Quiescent == uiPc = "idle" /\ searchThreads = <<>> /\ afterQueue = <<>>

\* C6: when the page the last search returned was shorter than the limit
\* (an empty page and a failed search included), the next button is
\* disabled.
NextOnlyAfterFullPage ==
    (Quiescent /\ next_btn = "normal") => lastPageSize >= current_limit

\* the goto text is a number below zero
IsNegative(t) == IntOk(Strip(t)) /\ IntValue(Strip(t)) < 0

IsNonNegative(t) == IntOk(Strip(t)) /\ IntValue(Strip(t)) >= 0

\* C7: goto with a negative number shows the validation dialog, changes
\* neither offset, keyword, limit nor the result set and sends no request;
\* goto with a number n >= 0 sets the offset to n exactly and searches with
\* it.
GotoValidates ==
    [][\A t \in GotoTexts :
          goto_offset(t) =>
             /\ IsNegative(t) =>
                   /\ messagebox' = "invalid_offset"
                   /\ UNCHANGED <<pagingVars, resultVars, page_label>>
                   /\ UNCHANGED <<uiPc, uiReq, searchThreads, afterQueue>>
             /\ IsNonNegative(t) =>
                   /\ current_offset' = IntValue(t)
                   /\ UNCHANGED <<current_keywords, current_limit>>
                   /\ uiPc' = "goto_offset"
                   /\ uiReq' = Request(current_keywords, IntValue(t), current_limit)]_vars

\* goto took effect with an offset that is no multiple of the limit
GotoSetOddOffset ==
    /\ uiPc = "goto_offset"
    /\ current_limit = 2
    /\ current_offset = 1
    /\ uiReq.offset = 1

ValidRequest(req) == req.keywords # <<>> /\ req.offset >= 0 /\ req.limit > 0

\* C8: every search request sent, by a worker or by the control surface,
\* carries a non-empty keyword, an offset >= 0 and a limit > 0.
RequestsAreValid ==
    /\ \A t \in 1..Len(searchThreads) : ValidRequest(searchThreads[t])
    /\ uiPc \in {"prev_page", "next_page", "goto_offset"} => ValidRequest(uiReq)

\* the workers that execute: the search workers and the download workers
\* whose function has not returned
RunningWorkers ==
    Len(searchThreads) + Cardinality({w \in 1..Len(threads) : threads[w].pc # "done"})

\* C9: at most one worker executes at any time.
AtMostOneWorker == RunningWorkers <= 1

\* C10: the control surface is never inside a network request.
ControlSurfaceNeverBlocks == uiPc = "idle"

\* C11: a download worker resolves the file of every attempt with the naming
\* format and the download directory that were in force when the worker
\* was started: it never observes a settings change made while it runs.
WorkersSeeStartSettings ==
    \A w \in 1..Len(threads) :
        LET th == threads[w] IN
        th.pc = "write" => (th.naming = th.startNaming /\ th.path.dir = th.startDir)

\* the search requests that are in flight
SearchesInFlight ==
    Len(searchThreads) + (IF uiPc \in {"prev_page", "next_page", "goto_offset"} THEN 1 ELSE 0)

\* C12: when the request of a search fails (search_music returns None), the
\* error dialog is shown, nothing is rendered (the result set, the
\* selection, the buttons, the page label stay as they are and no
\* display_results callback is queued) and the request is not sent again:
\* one request fewer is in flight.
FailedSearchRendersNothing ==
    [][((\E t \in 1..Len(searchThreads) : SearchThreadReturn(t, <<>>)) \/ UiSearchReturn(<<>>))
          => /\ messagebox' = "search_failed"
             /\ UNCHANGED <<resultVars, btnVars, labelVars, afterQueue>>
             /\ SearchesInFlight' = SearchesInFlight - 1]_vars

\* a search failed while a page was displayed, and the page is still there
FailedSearchKeptPage ==
    /\ messagebox = "search_failed"
    /\ current_result # <<>>
    /\ Len(song_details) = 2
    /\ SearchesInFlight = 0
    /\ afterQueue = <<>>

\* C13: an attempt whose response ended elsewhere than at the sentinel page
\* with a status other than 200 is a failure that carries that status, and
\* the attempt is not made again: a worker makes one attempt per song of its
\* input, a single download exactly one.
StatusFailureCarriesCode ==
    \A w \in 1..Len(threads) :
        LET th == threads[w] IN
        /\ (th.returned > 0 /\ ~th.result.err /\ th.result.url # SentinelUrl
                /\ th.result.status # 200)
              => (~th.result.ok /\ th.result.kind = "status"
                    /\ th.result.code = th.result.status)
        /\ Len(th.attempted) <= Len(th.songs)
        /\ th.returned <= Len(th.attempted)
        /\ (th.kind = "single" /\ th.returned > 0) => th.pc = "done"

\* a single download ended with the status 404 of the media URL
SingleDownloadGot404 ==
    \E w \in 1..Len(threads) :
        /\ threads[w].kind = "single"
        /\ threads[w].pc = "done"
        /\ threads[w].result.url = MediaUrl
        /\ threads[w].result.code = 404

\* "{base} (k).mp3" for a file name "{base}.mp3"
Disambiguated(filename, k) ==
    SubSeq(filename, 1, Len(filename) - Len(Mp3)) \o <<" ", "(">> \o Str(k) \o <<")">> \o Mp3

\* C14: the probe returns the base name when no file of that name exists,
\* and otherwise "{base} (k).mp3" for the smallest k >= 1 for which no file
\* of that name exists.
ProbeNumbersBeforeExtension ==
    (fnIn.fn = "probe" /\ fnOut # <<>>) =>
        LET f == fnIn.filename
            present == fnIn.present
        IN
        IF f \notin present
        THEN fnOut[1] = f
        ELSE \E k \in 1..(Cardinality(present) + 1) :
                /\ fnOut[1] = Disambiguated(f, k)
                /\ Disambiguated(f, k) \notin present
                /\ \A j \in 1..(k - 1) : Disambiguated(f, j) \in present

\* what the naming rule makes of a string: each of the nine characters
\* replaced by "_", blanks at both ends removed
Sanitized(text) ==
    Strip([i \in 1..Len(text) |->
             IF text[i] \in {"<", ">", ":", "\"", "/", "\\", "|", "?", "*"} THEN "_" ELSE text[i]])

\* C15: whatever the track name and the artist string, the file name of a
\* download is the sanitized name followed by ".mp3" under TitleOnly, and
\* the sanitized name, " - ", the sanitized artist and ".mp3" under
\* TitleDashArtist.
BaseNameFollowsFormat ==
    (fnIn.fn = "filename" /\ fnOut # <<>>) =>
        fnOut[1] = IF fnIn.naming = "TitleOnly"
                   THEN Sanitized(fnIn.name) \o Mp3
                   ELSE Sanitized(fnIn.name) \o <<" ", "-", " ">> \o Sanitized(fnIn.artist) \o Mp3

\* C16: prev with an offset above 0 sets the offset to offset - limit, or
\* to 0 when that is negative, and the control surface searches with the
\* new offset and the keyword and limit as they were; prev with offset 0
\* changes nothing and sends nothing.
PrevPageMoves ==
    [][prev_page =>
          IF current_offset > 0
          THEN /\ current_offset' = (IF current_offset - current_limit > 0
                                     THEN current_offset - current_limit ELSE 0)
               /\ UNCHANGED <<current_keywords, current_limit>>
               /\ uiPc' = "prev_page"
               /\ uiReq' = Request(current_keywords, current_offset', current_limit)
          ELSE UNCHANGED <<pagingVars, resultVars, settingVars, btnVars, labelVars,
                           uiPc, uiReq, searchThreads, threads, afterQueue, fsVars>>]_vars

\* prev searches for offset 0 from the page of offset 1 shown with limit 1
PrevIssuedSearch ==
    /\ uiPc = "prev_page"
    /\ uiReq = Request(<<"k">>, 0, 1)
    /\ page_label.offset = 1
    /\ current_offset = 0

\* C17: when the page of a search with offset 0 and limit L that holds
\* exactly L songs and a result count T is displayed, the next button is
\* enabled, the prev button disabled and the page label shows offset 0 and
\* total T; next then sets the offset to offset + L and the control surface
\* searches with that offset, the same keyword and the same limit.
FullFirstPageThenNext ==
    [][/\ (/\ RunCallback
            /\ current_offset = 0
            /\ Len(Head(afterQueue).songs) = current_limit
            /\ Head(afterQueue).hasCount)
          => /\ next_btn' = "normal"
             /\ prev_btn' = "disabled"
             /\ page_label' = [offset |-> 0, total |-> Head(afterQueue).songCount]
       /\ next_page
          => /\ current_offset' = current_offset + current_limit
             /\ UNCHANGED <<current_keywords, current_limit>>
             /\ uiPc' = "next_page"
             /\ uiReq' = Request(current_keywords, current_offset + current_limit,
                                 current_limit)]_vars

\* next searches for offset 2 from the full first page of a search with
\* limit 2 and result count TotalCount
NextFromFullFirstPage ==
    /\ uiPc = "next_page"
    /\ uiReq = Request(<<"k">>, 2, 2)
    /\ current_offset = 2
    /\ page_label = [offset |-> 0, total |-> TotalCount]
    /\ prev_btn = "disabled"
    /\ Len(song_details) = 2

\* C18: reset, from whatever state, leaves the keyword empty, the offset 0,
\* the total shown 0, no result set and no selected song, and the next,
\* prev, download and batch download buttons disabled.
ResetRestoresInitial ==
    [][reset_search =>
          /\ current_keywords' = <<>>
          /\ current_offset' = 0
          /\ page_label' = [offset |-> 0, total |-> 0]
          /\ current_result' = <<>>
          /\ song_details' = <<>>
          /\ selected_song' = <<>>
          /\ next_btn' = "disabled"
          /\ prev_btn' = "disabled"
          /\ download_btn' = "disabled"
          /\ batch_download_btn' = "disabled"]_vars

\* reset came after a page was displayed and a download of its selected
\* song was started: the worker still runs, the session is cleared
ResetWhileDownloading ==
    /\ threads # <<>>
    /\ current_keywords = <<>>
    /\ current_offset = 0
    /\ page_label.total = 0
    /\ current_result = <<>>
    /\ song_details = <<>>
    /\ selected_song = <<>>
    /\ next_btn = "disabled"
    /\ download_btn = "disabled"

\* C19: the link test reports "unavailable" whenever the response ended at
\* the sentinel page, "valid" for status 200 elsewhere, and "failed" for
\* any other status and for a transport error.
LinkTestClassifies ==
    [][\A r \in LinkResponses :
          HeadReturn(r) =>
             detail_download_status' =
                (IF r.err THEN "failed"
                 ELSE IF r.url = SentinelUrl THEN "unavailable"
                 ELSE IF r.status = 200 THEN "valid"
                 ELSE "failed")]_vars

\* C20: after load_settings the settings are the defaults (TitleDashArtist,
\* "downloads") when there is no settings document or it cannot be read or
\* parsed into an object, and otherwise the values the document holds, with
\* the default for each field it does not hold.
LoadedSettingsOrDefaults ==
    (fnIn.fn = "load_settings" /\ fnOut # <<>>) =>
        LET doc == fnIn.doc IN
        IF doc.kind # "object"
        THEN naming_format = "TitleDashArtist" /\ download_dir = "downloads"
        ELSE /\ naming_format = (IF doc.naming_format = <<>> THEN "TitleDashArtist"
                                 ELSE doc.naming_format[1])
             /\ download_dir = (IF doc.download_dir = <<>> THEN "downloads"
                                ELSE doc.download_dir[1])

\* a document that holds only the naming format was loaded
LoadedPartialDocument ==
    /\ fnIn.fn = "load_settings"
    /\ fnOut # <<>>
    /\ fnIn.doc.kind = "object"
    /\ fnIn.doc.naming_format = <<"TitleOnly">>
    /\ fnIn.doc.download_dir = <<>>
    /\ naming_format = "TitleOnly"
    /\ download_dir = "downloads"

\* C21: whenever no search is in flight, no callback is pending and a
\* non-empty result set is held, that result set is a response to the
\* request made of the current keyword, offset and limit: its songs are
\* those from the current offset on, at most the current limit of them.
ResultMatchesPagination ==
    (Quiescent /\ current_result # <<>> /\ song_details # <<>>)
        => current_result \in SearchReturns(Request(current_keywords, current_offset,
                                                    current_limit))

\* C22: no two completed downloads were written to the same path, however
\* the probes and writes of the workers that made them interleaved.
ConcurrentDownloadsDistinctPaths ==
    \A i, j \in 1..Len(written) : i # j => written[i].path # written[j].path

\* C23: a selected track is one of the tracks of the current result set;
\* with no track in the result set (after a search that returned none, after
\* reset) no track is selected, so that download-one is refused.
SelectedIsMember ==
    selected_song # <<>> => \E i \in 1..Len(song_details) : song_details[i] = selected_song[1]

\* C24: a batch worker processes the tracks that formed the result set when
\* its command was accepted: whatever search completes or reset happens
\* while it runs, the list it goes through (and so its total) is that
\* sequence, the attempts it started are the first tracks of that sequence
\* in order, and when it has finished it has attempted all of them.
BatchKeepsAcceptedTracks ==
    \A w \in BatchThreads :
        LET th == threads[w] IN
        /\ th.songs = th.accepted
        /\ Len(th.attempted) <= Len(th.accepted)
        /\ \A k \in 1..Len(th.attempted) : th.attempted[k] = th.accepted[k].song_id
        /\ th.pc = "done" => Len(th.attempted) = Len(th.accepted)

\* a batch of two tracks is at its second attempt, the first one having
\* succeeded, while the result set has become another one (a later search
\* was displayed, or the session was reset)
BatchOutlivedResultSet ==
    \E w \in BatchThreads :
        /\ threads[w].pc \in {"get", "write"}
        /\ Len(threads[w].accepted) = 2
        /\ threads[w].attempted = <<threads[w].accepted[1].song_id,
                                    threads[w].accepted[2].song_id>>
        /\ threads[w].success_count = 1
        /\ song_details # threads[w].accepted

\* the paths of the downloads that completed
WrittenPaths == {written[j].path : j \in 1..Len(written)}

\* C25: every file that exists was there at start or is the file of a
\* download that reported success: an attempt that reported failure has
\* created no file.
FailedAttemptLeavesNoFile == files = initFiles \cup WrittenPaths

====
